---- MODULE Spec2Model ----
(***************************************************************************)
(* Model of single-node/convert_raw_to_hdf5.py: the conversion of a        *)
(* Decathlon dataset (dataset.json plus one Nifti image and one Nifti      *)
(* label per sample) into one HDF5 container with four growable datasets.  *)
(*                                                                         *)
(* An array is modelled the way numpy holds it, as a view of a raw volume: *)
(* the sample and role it was loaded from, its shape, the raw axis each    *)
(* position stands for, and the offset of the view along each raw axis.    *)
(* A row of a dataset is one index of a view's leading axis.  Voxel values *)
(* are modelled where the code computes on them (the mask binarization),   *)
(* on flattened volumes of small integers.                                 *)
(***************************************************************************)
EXTENDS Integers, Sequences, FiniteSets, TLC

VARIABLES
    pc,               \* position of the script
    args,             \* argparse namespace: resize, split
    outFile,          \* content of <save_path>/<resize>x<resize>/<output_filename>, or NoFile
    nifti,            \* shapes of the Nifti volumes read so far, by <<idx, role>>
    experiment_data,  \* the loaded manifest, or Undefined
    randomList,       \* np.random.random((numFiles)), as multiples of 1/DrawScale
    trainList,        \* indices with a draw < split
    validateList,     \* indices with a draw >= split
    hdf_file,         \* the h5py.File handle: "unbound" or "open"
    locals,           \* the names license, dataset_name, ... of convert_raw_data_to_hdf5
    first,            \* the loop flag `first`
    k,                \* number of iterations done by the running loop
    console,          \* messages printed so far
    error,            \* the exception that ended the run, "" if none
    cropIn,           \* crop_center on its own: the call's arguments
    cropOut,          \* crop_center on its own: the returned view
    mskIn,            \* binarization on its own: the mask before
    mskOut            \* binarization on its own: the mask after

vars == <<pc, args, outFile, nifti, experiment_data, randomList, trainList,
          validateList, hdf_file, locals, first, k, console, error,
          cropIn, cropOut, mskIn, mskOut>>

cropVars == <<cropIn, cropOut>>

maskVars == <<mskIn, mskOut>>

(***************************************************************************)
(* Bounds of the model.                                                    *)
(***************************************************************************)
MaxFiles == 3      \* numTraining ranges over 1..MaxFiles

DrawScale == 3     \* draws are j/DrawScale, j in 0..DrawScale-1; split is j/DrawScale, j in 0..DrawScale

MaxZ == 2          \* a raw volume has MaxZ-1 or MaxZ slices along z

InPlane == 2       \* every raw volume is InPlane x InPlane in x and y

NumChannels == 2   \* every raw image has NumChannels modalities

MaxAxis == 3       \* crop_center on its own: an axis has 0..MaxAxis entries

MaxCrop == 3       \* crop_center on its own: a crop size is 1..MaxCrop

MaxVoxels == 3     \* binarization on its own: a mask has 0..MaxVoxels voxels

MaxLabel == 3      \* binarization on its own: a voxel is a class label 0..MaxLabel

\* the depths of the raw volumes, and the crop sizes given as --resize:
\* a volume is deeper than, as deep as, or shallower than the crop
ZSizes == (MaxZ - 1)..MaxZ

Undefined == [defined |-> FALSE]

EmptyMap == [x \in {} |-> 0]

NoFile == [exists |-> FALSE, meta |-> EmptyMap, dsets |-> EmptyMap, attrs |-> EmptyMap]

Max(a, b) == IF a >= b THEN a ELSE b

Min(a, b) == IF a <= b THEN a ELSE b

(***************************************************************************)
(* numpy views.                                                            *)
(***************************************************************************)
RawImage(idx, z) ==
    [src |-> idx, role |-> "image",
     dims |-> <<InPlane, InPlane, z, NumChannels>>,
     axes |-> <<"x", "y", "z", "c">>,
     lo |-> [a \in {"x", "y", "z"} |-> 0],
     ops |-> <<>>]

RawLabel(idx, z) ==
    [src |-> idx, role |-> "label",
     dims |-> <<InPlane, InPlane, z>>,
     axes |-> <<"x", "y", "z">>,
     lo |-> [a \in {"x", "y", "z"} |-> 0],
     ops |-> <<>>]

\* a[start:stop] on an axis of n entries: the first index taken and the number taken
PySlice(n, start, stop) ==
    LET norm(i) == IF i < 0 THEN Max(i + n, 0) ELSE Min(i, n)
        b == norm(start)
        e == norm(stop)
    IN  [lo |-> b, len |-> Max(e - b, 0)]

CropStartMissingHalf(n, crop) == Max(n \div 2 - crop, 0)

\* startx = max(x//2-(cropx//2), 0)
CropStart(n, crop) == Max(n \div 2 - (crop \div 2), 0)

\* endx = min(startx + cropx, x)
CropEnd(start, n, crop) == Min(start + crop, n)

crop_center(img, cropx, cropy, cropz) ==
    LET crop == <<cropx, cropy, cropz>>
        start == [i \in 1..3 |-> CropStart(img.dims[i], crop[i])]
        end == [i \in 1..3 |-> CropEnd(start[i], img.dims[i], crop[i])]
        win == [i \in 1..3 |-> PySlice(img.dims[i], start[i], end[i])]
        pos(a) == CHOOSE i \in 1..3 : img.axes[i] = a
    IN  [img EXCEPT
           !.dims = [i \in 1..Len(img.dims) |-> IF i <= 3 THEN win[i].len ELSE img.dims[i]],
           !.lo = [a \in DOMAIN img.lo |-> img.lo[a] + win[pos(a)].lo]]

\* per channel (x - mean) / std: shape and provenance are kept, the values change
normalize_img(img) == [img EXCEPT !.ops = Append(@, "normalize")]

BinarizeDropsOthers(msk) == [i \in DOMAIN msk |-> IF msk[i] > 1 THEN 0 ELSE msk[i]]

\* msk[msk > 1] = 1 on the voxels of a flattened mask
Binarize(msk) == [i \in DOMAIN msk |-> IF msk[i] > 1 THEN 1 ELSE msk[i]]

\* msk[msk > 1] = 1 on a view: shape and provenance are kept, the values change
BinarizeView(msk) == [msk EXCEPT !.ops = Append(@, "binarize")]

\* a numpy axis number, negative ones counted from the end; 0-based in, 1-based out
AxisPos(nd, a) == (IF a < 0 THEN a + nd ELSE a) + 1

swapaxes(v, a, b) ==
    LET i == AxisPos(Len(v.dims), a)
        j == AxisPos(Len(v.dims), b)
        sw(s) == [p \in 1..Len(s) |-> IF p = i THEN s[j] ELSE IF p = j THEN s[i] ELSE s[p]]
    IN  [v EXCEPT !.dims = sw(v.dims), !.axes = sw(v.axes)]

\* np.expand_dims(v, -1)
expand_dims(v) == [v EXCEPT !.dims = Append(@, 1), !.axes = Append(@, "c")]

ImageLayout(img) == swapaxes(img, 0, -2)

MaskLayoutSwapsY(msk) == expand_dims(swapaxes(msk, 0, -2))

MaskLayout(msk) == expand_dims(swapaxes(msk, 0, -1))

\* the rows of a view: one per index of its leading axis
Rows(v) ==
    [r \in 1..v.dims[1] |->
        [src |-> v.src, role |-> v.role, axis |-> v.axes[1],
         at |-> (IF v.axes[1] \in DOMAIN v.lo THEN v.lo[v.axes[1]] ELSE 0) + r - 1,
         shape |-> Tail(v.dims), ops |-> v.ops]]

(***************************************************************************)
(* The HDF5 container.                                                     *)
(***************************************************************************)
FillRow == [src |-> -1, role |-> "fill", axis |-> "", at |-> 0, shape |-> <<>>, ops |-> <<>>]

OldRow == [src |-> -2, role |-> "old", axis |-> "", at |-> 0, shape |-> <<>>, ops |-> <<>>]

OldEntry == [size |-> 1, value |-> "old"]

\* a container left at the output path by an earlier run
OldFile ==
    [exists |-> TRUE,
     meta |-> [n \in {"license", "name", "stale"} |-> OldEntry],
     dsets |-> [n \in {"imgs_train", "msks_train", "imgs_test", "msks_test"} |-> <<OldRow, OldRow>>],
     attrs |-> [n \in {"imgs_train"} |-> "old"]]

\* h5py.File(filename, "w"): create the file, truncating what is there
H5Create(file) == [exists |-> TRUE, meta |-> EmptyMap, dsets |-> EmptyMap, attrs |-> EmptyMap]

\* create_dataset(name, (size,), dtype=vlen str): size entries, all the empty string
H5CreateStrings(file, name, size) ==
    [file EXCEPT !.meta = (name :> [size |-> size, value |-> ""]) @@ @]

\* create_dataset(name, img.shape, maxshape=(None, ...)) followed by dset[:] = img
H5CreateDataset(file, name, rows) ==
    [file EXCEPT !.dsets = (name :> rows) @@ @]

\* dset.resize(n, axis=0): new rows hold the fill value, rows beyond n are dropped
H5Resize(dset, n) == [i \in 1..n |-> IF i <= Len(dset) THEN dset[i] ELSE FillRow]

\* dset[lo:hi, :] = rows
H5WriteSlice(dset, lo, hi, rows) ==
    [i \in 1..Len(dset) |-> IF lo < i /\ i <= hi THEN rows[i - lo] ELSE dset[i]]

AppendRowsOverLast(dset, rows) ==
    LET row == Len(dset) - 1
        num_rows == Len(rows)
    IN  H5WriteSlice(H5Resize(dset, row + num_rows), row, row + num_rows, rows)

\* row = dset.shape[0]; dset.resize(row+num_rows, axis=0); dset[row:(row+num_rows), :] = img
AppendRows(dset, rows) ==
    LET row == Len(dset)
        num_rows == Len(rows)
    IN  H5WriteSlice(H5Resize(dset, row + num_rows), row, row + num_rows, rows)

\* the body of `if first: ... else: ...`
StoreVolume(file, name, rows, isFirst) ==
    IF isFirst
    THEN H5CreateDataset(file, name, rows)
    ELSE [file EXCEPT !.dsets[name] = AppendRows(@, rows)]

(***************************************************************************)
(* The manifest and the split.                                             *)
(***************************************************************************)
Manifest(n) ==
    [name |-> "BRATS", description |-> "Gliomas segmentation", licence |-> "CC-BY-SA 4.0",
     reference |-> "https://www.med.upenn.edu/sbia/brats2017.html", release |-> "2.0",
     modalities |-> <<"FLAIR", "T1w">>, numTraining |-> n,
     training |-> [i \in 0..(n - 1) |-> [image |-> <<"imagesTr", i>>, label |-> <<"labelsTr", i>>]]]

\* np.arange(numFiles)
idxList(numFiles) == [i \in 1..numFiles |-> i - 1]

\* a[mask]: the entries of a whose mask entry is true, in order
RECURSIVE MaskSelect(_, _)
MaskSelect(a, mask) ==
    IF a = <<>> THEN <<>>
    ELSE (IF Head(mask) THEN <<Head(a)>> ELSE <<>>) \o MaskSelect(Tail(a), Tail(mask))

\* randomList < args.split
InTrain(draw, split) == draw < split

InValidateStrict(draw, split) == draw > split

\* randomList >= args.split
InValidate(draw, split) == draw >= split

Say(msg) == console' = Append(console, msg)

Raise(exc) == /\ pc' = "error"
              /\ error' = exc

(***************************************************************************)
(* The script, __main__.                                                   *)
(***************************************************************************)
Init ==
    /\ pc = "makedirs"
    /\ args \in [resize : ZSizes, split : 0..DrawScale]
    /\ outFile \in {NoFile, OldFile}
    /\ nifti = EmptyMap
    /\ experiment_data = Undefined
    /\ randomList = <<>>
    /\ trainList = <<>>
    /\ validateList = <<>>
    /\ hdf_file = "unbound"
    /\ locals = EmptyMap
    /\ first = FALSE
    /\ k = 0
    /\ console = <<"Converting">>
    /\ error = ""
    /\ cropIn = Undefined
    /\ cropOut = Undefined
    /\ mskIn = <<>>
    /\ mskOut = <<>>

\* os.makedirs(save_dir), an OSError being swallowed when the directory exists
Makedirs ==
    /\ pc = "makedirs"
    /\ \E r \in {"made", "there", "failed"} :
          /\ r = "made" => ~outFile.exists
          /\ IF r = "failed" THEN Raise("OSError") ELSE pc' = "exists" /\ error' = error
    /\ UNCHANGED <<args, outFile, nifti, experiment_data, randomList, trainList,
                   validateList, hdf_file, locals, first, k, console>>
    /\ UNCHANGED <<cropVars, maskVars>>

RemoveExistingKeeps ==
    /\ pc = "exists"
    /\ pc' = "load"
    /\ UNCHANGED <<args, outFile, nifti, experiment_data, randomList, trainList,
                   validateList, hdf_file, locals, first, k, console, error>>
    /\ UNCHANGED <<cropVars, maskVars>>

\* if os.path.exists(filename): os.remove(filename)
RemoveExisting ==
    /\ pc = "exists"
    /\ IF outFile.exists
       THEN Say("Removing existing data file") /\ outFile' = NoFile
       ELSE UNCHANGED <<console, outFile>>
    /\ pc' = "load"
    /\ UNCHANGED <<args, nifti, experiment_data, randomList, trainList,
                   validateList, hdf_file, locals, first, k, error>>
    /\ UNCHANGED <<cropVars, maskVars>>

\* try: experiment_data = json.load(fp)  except IOError: print(...)
LoadManifest ==
    /\ pc = "load"
    /\ \/ \* the file is absent: the handler prints and the script goes on
          /\ Say("File dataset.json doesn't exist")
          /\ pc' = "summary"
          /\ UNCHANGED <<experiment_data, error>>
       \/ \* the file is no JSON: a ValueError is not an IOError and is not caught
          /\ Raise("ValueError")
          /\ UNCHANGED <<experiment_data, console>>
       \/ \E n \in 1..MaxFiles :
             /\ experiment_data' = Manifest(n)
             /\ pc' = "summary"
             /\ UNCHANGED <<console, error>>
    /\ UNCHANGED <<args, outFile, nifti, randomList, trainList,
                   validateList, hdf_file, locals, first, k>>
    /\ UNCHANGED <<cropVars, maskVars>>

\* print("Dataset name = ", experiment_data["name"]) ...
PrintSummary ==
    /\ pc = "summary"
    /\ IF experiment_data = Undefined
       THEN Raise("NameError") /\ UNCHANGED console
       ELSE Say("Dataset name") /\ pc' = "split" /\ error' = error
    /\ UNCHANGED <<args, outFile, nifti, experiment_data, randomList, trainList,
                   validateList, hdf_file, locals, first, k>>
    /\ UNCHANGED <<cropVars, maskVars>>

\* np.random.seed(816) ... validateList = idxList[randomList >= args.split]
Split ==
    /\ pc = "split"
    /\ LET numFiles == experiment_data.numTraining
       IN  \E draws \in [1..numFiles -> 0..(DrawScale - 1)] :
              /\ randomList' = draws
              /\ trainList' = MaskSelect(idxList(numFiles),
                                 [i \in 1..numFiles |-> InTrain(draws[i], args.split)])
              /\ validateList' = MaskSelect(idxList(numFiles),
                                 [i \in 1..numFiles |-> InValidate(draws[i], args.split)])
    /\ pc' = "call"
    /\ UNCHANGED <<args, outFile, nifti, experiment_data, hdf_file, locals,
                   first, k, console, error>>
    /\ UNCHANGED <<cropVars, maskVars>>

(***************************************************************************)
(* convert_raw_data_to_hdf5.                                               *)
(***************************************************************************)
\* the call, and hdf_file = h5py.File(filename, "w").  randomList is not passed
\* to the function and is not read again: the model lets go of it here.
OpenContainer ==
    /\ pc = "call"
    /\ hdf_file' = "open"
    /\ outFile' = H5Create(outFile)
    /\ randomList' = <<>>
    /\ pc' = "meta"
    /\ UNCHANGED <<args, nifti, experiment_data, trainList, validateList,
                   locals, first, k, console, error>>
    /\ UNCHANGED <<cropVars, maskVars>>

\* license = hdf_file.create_dataset("license", (100,), dtype=dt)
\* license = json_data["licence"]    ... and so on for the other four:
\* the second assignment binds the local name again, the dataset is not written
CreateMetadata ==
    /\ pc = "meta"
    /\ outFile' = H5CreateStrings(H5CreateStrings(H5CreateStrings(H5CreateStrings(
                    H5CreateStrings(outFile, "license", 100), "name", 100),
                    "description", 200), "reference", 100), "release", 50)
    /\ locals' = [license |-> experiment_data.licence,
                  dataset_name |-> experiment_data.name,
                  description |-> experiment_data.description,
                  reference |-> experiment_data.reference,
                  release |-> experiment_data.release]
    /\ Say("Step 1 of 4")
    /\ first' = TRUE
    /\ k' = 0
    /\ pc' = "step1"
    /\ UNCHANGED <<args, nifti, experiment_data, randomList, trainList, validateList,
                   hdf_file, error>>
    /\ UNCHANGED <<cropVars, maskVars>>

\* one transformed image, as the loop body builds it
TransformImage(idx, z) ==
    ImageLayout(normalize_img(
        crop_center(RawImage(idx, z), args.resize, args.resize, args.resize)))

\* one transformed mask, as the loop body builds it
TransformMask(idx, z) ==
    MaskLayout(BinarizeView(
        crop_center(RawLabel(idx, z), args.resize, args.resize, args.resize)))

\* one iteration of a `for idx in tqdm(list)` loop: load, transform, store
SaveVolume(stage, list, role, name) ==
    /\ pc = stage
    /\ k < Len(list)
    /\ LET idx == list[k + 1]
       IN  \/ \* nib.load raises: the run ends there
              /\ Raise("FileNotFoundError")
              /\ UNCHANGED <<nifti, outFile, first, k>>
           \/ \E z \in ZSizes :
                 /\ nifti' = (<<idx, role>> :> z) @@ nifti
                 /\ outFile' = StoreVolume(outFile, name,
                                  Rows(IF role = "image" THEN TransformImage(idx, z)
                                                         ELSE TransformMask(idx, z)),
                                  first)
                 /\ first' = FALSE
                 /\ k' = k + 1
                 /\ UNCHANGED <<pc, error>>
    /\ UNCHANGED <<args, experiment_data, randomList, trainList, validateList,
                   hdf_file, locals, console>>
    /\ UNCHANGED <<cropVars, maskVars>>

SaveTrainImages == SaveVolume("step1", trainList, "image", "imgs_train")

EndTrainImages ==
    /\ pc = "step1"
    /\ k = Len(trainList)
    /\ IF "imgs_train" \in DOMAIN outFile.dsets
       THEN /\ outFile' = [outFile EXCEPT
                             !.attrs = ("imgs_train" :> experiment_data.modalities) @@ @]
            /\ pc' = "step2"
            /\ Say("Step 2 of 4")
            /\ first' = TRUE
            /\ k' = 0
            /\ error' = error
       ELSE /\ Raise("KeyError")
            /\ UNCHANGED <<outFile, console, first, k>>
    /\ UNCHANGED <<args, nifti, experiment_data, randomList, trainList, validateList,
                   hdf_file, locals>>
    /\ UNCHANGED <<cropVars, maskVars>>

SaveTestImages == SaveVolume("step2", validateList, "image", "imgs_test")

EndTestImages ==
    /\ pc = "step2"
    /\ k = Len(validateList)
    /\ IF "imgs_test" \in DOMAIN outFile.dsets
       THEN /\ outFile' = [outFile EXCEPT
                             !.attrs = ("imgs_test" :> experiment_data.modalities) @@ @]
            /\ pc' = "step3"
            /\ Say("Step 3 of 4")
            /\ first' = TRUE
            /\ k' = 0
            /\ error' = error
       ELSE /\ Raise("KeyError")
            /\ UNCHANGED <<outFile, console, first, k>>
    /\ UNCHANGED <<args, nifti, experiment_data, randomList, trainList, validateList,
                   hdf_file, locals>>
    /\ UNCHANGED <<cropVars, maskVars>>

SaveTrainMasks == SaveVolume("step3", trainList, "label", "msks_train")

EndTrainMasks ==
    /\ pc = "step3"
    /\ k = Len(trainList)
    /\ pc' = "step4"
    /\ Say("Step 4 of 4")
    /\ first' = TRUE
    /\ k' = 0
    /\ UNCHANGED <<args, outFile, nifti, experiment_data, randomList, trainList,
                   validateList, hdf_file, locals, error>>
    /\ UNCHANGED <<cropVars, maskVars>>

SaveTestMasks == SaveVolume("step4", validateList, "label", "msks_test")

\* print("Finished processing."); the function returns and the script ends.
\* Nothing in the script closes hdf_file.
Finish ==
    /\ pc = "step4"
    /\ k = Len(validateList)
    /\ pc' = "done"
    /\ console' = console \o <<"Finished processing", "HDF5 saved">>
    /\ UNCHANGED <<args, outFile, nifti, experiment_data, randomList, trainList,
                   validateList, hdf_file, locals, first, k, error>>
    /\ UNCHANGED <<cropVars, maskVars>>

Next ==
    \/ Makedirs
    \/ RemoveExisting
    \/ LoadManifest
    \/ PrintSummary
    \/ Split
    \/ OpenContainer
    \/ CreateMetadata
    \/ SaveTrainImages
    \/ EndTrainImages
    \/ SaveTestImages
    \/ EndTestImages
    \/ SaveTrainMasks
    \/ EndTrainMasks
    \/ SaveTestMasks
    \/ Finish

Spec == Init /\ [][Next]_vars

(***************************************************************************)
(* crop_center on its own: every 3-D and 4-D shape up to MaxAxis, every    *)
(* triple of crop sizes up to MaxCrop.                                     *)
(***************************************************************************)
IdlePipeline ==
    /\ args = [resize |-> 1, split |-> 0]
    /\ outFile = NoFile
    /\ nifti = EmptyMap
    /\ experiment_data = Undefined
    /\ randomList = <<>>
    /\ trainList = <<>>
    /\ validateList = <<>>
    /\ hdf_file = "unbound"
    /\ locals = EmptyMap
    /\ first = FALSE
    /\ k = 0
    /\ console = <<>>
    /\ error = ""

Volume3D(x, y, z) ==
    [src |-> 0, role |-> "label", dims |-> <<x, y, z>>, axes |-> <<"x", "y", "z">>,
     lo |-> [a \in {"x", "y", "z"} |-> 0], ops |-> <<>>]

Volume4D(x, y, z, c) ==
    [src |-> 0, role |-> "image", dims |-> <<x, y, z, c>>, axes |-> <<"x", "y", "z", "c">>,
     lo |-> [a \in {"x", "y", "z"} |-> 0], ops |-> <<>>]

InitCrop ==
    /\ pc = "crop"
    /\ \E x, y, z \in 0..MaxAxis, cx, cy, cz \in 1..MaxCrop :
          \E img \in {Volume3D(x, y, z)} \cup {Volume4D(x, y, z, c) : c \in 1..NumChannels} :
             cropIn = [img |-> img, cropx |-> cx, cropy |-> cy, cropz |-> cz]
    /\ cropOut = Undefined
    /\ mskIn = <<>>
    /\ mskOut = <<>>
    /\ IdlePipeline

CropCall ==
    /\ pc = "crop"
    /\ cropOut' = crop_center(cropIn.img, cropIn.cropx, cropIn.cropy, cropIn.cropz)
    /\ pc' = "cropped"
    /\ UNCHANGED <<args, outFile, nifti, experiment_data, randomList, trainList,
                   validateList, hdf_file, locals, first, k, console, error>>
    /\ UNCHANGED <<cropIn, maskVars>>

NextCrop == CropCall

SpecCrop == InitCrop /\ [][NextCrop]_vars

(***************************************************************************)
(* The binarization on its own: every flattened mask of up to MaxVoxels    *)
(* class labels 0..MaxLabel.                                               *)
(***************************************************************************)
RECURSIVE SeqsUpTo(_, _)
SeqsUpTo(S, n) ==
    IF n = 0 THEN {<<>>}
    ELSE SeqsUpTo(S, n - 1) \cup {Append(q, v) : q \in [1..(n - 1) -> S], v \in S}

InitMask ==
    /\ pc = "mask"
    /\ mskIn \in SeqsUpTo(0..MaxLabel, MaxVoxels)
    /\ mskOut = <<>>
    /\ cropIn = Undefined
    /\ cropOut = Undefined
    /\ IdlePipeline

BinarizeCall ==
    /\ pc = "mask"
    /\ mskOut' = Binarize(mskIn)
    /\ pc' = "masked"
    /\ UNCHANGED <<args, outFile, nifti, experiment_data, randomList, trainList,
                   validateList, hdf_file, locals, first, k, console, error>>
    /\ UNCHANGED <<cropVars, mskIn>>

NextMask == BinarizeCall

SpecMask == InitMask /\ [][NextMask]_vars

(***************************************************************************)
(* Properties.                                                             *)
(***************************************************************************)
Range(q) == {q[i] : i \in DOMAIN q}

Occurrences(q, v) == Cardinality({i \in DOMAIN q : q[i] = v})

Dset(name) == IF name \in DOMAIN outFile.dsets THEN outFile.dsets[name] ELSE <<>>

InConvert == hdf_file # "unbound"

\* C1: for a split ratio in (0,1), once the Splitter has run, every index of
\* 0..numTraining-1 is in exactly one of trainList and validateList, the two lists
\* together hold exactly that range, and i is in trainList iff its draw is < split.
C1_Partition ==
    (pc = "call" /\ args.split \in 1..(DrawScale - 1)) =>
        LET n == experiment_data.numTraining
        IN  /\ n > 0
            /\ Range(trainList) \cup Range(validateList) = 0..(n - 1)
            /\ Range(trainList) \cap Range(validateList) = {}
            /\ \A i \in 0..(n - 1) :
                  /\ Occurrences(trainList, i) + Occurrences(validateList, i) = 1
                  /\ (i \in Range(trainList)) <=> (randomList[i + 1] < args.split)

C1_Witness ==
    /\ pc = "call"
    /\ args.split \in 1..(DrawScale - 1)
    /\ Len(trainList) >= 2
    /\ Len(validateList) >= 1
    /\ \E i \in DOMAIN randomList : randomList[i] = args.split

\* C2: when trainList or validateList is empty, convert_raw_data_to_hdf5 raises
\* no error of its own (only an unreadable sample may end the run), and at the
\* final confirmation the two datasets of the empty side exist with zero rows.
C2_EmptySideHandled ==
    (InConvert /\ (trainList = <<>> \/ validateList = <<>>)) =>
        /\ error \in {"", "FileNotFoundError"}
        /\ pc = "done" =>
              /\ trainList = <<>> =>
                    /\ {"imgs_train", "msks_train"} \subseteq DOMAIN outFile.dsets
                    /\ Len(Dset("imgs_train")) = 0
                    /\ Len(Dset("msks_train")) = 0
              /\ validateList = <<>> =>
                    /\ {"imgs_test", "msks_test"} \subseteq DOMAIN outFile.dsets
                    /\ Len(Dset("imgs_test")) = 0
                    /\ Len(Dset("msks_test")) = 0

ManifestReadFailed == "File dataset.json doesn't exist" \in Range(console)

\* C3: once the read of dataset.json has failed, the run is over with a
\* ManifestNotFound condition: the script is at no later statement.
C3_ManifestAbort ==
    ManifestReadFailed => (pc = "error" /\ error = "ManifestNotFound")

MetaNames == {"license", "name", "description", "reference", "release"}

MetaPopulated ==
    /\ DOMAIN outFile.meta = MetaNames
    /\ outFile.meta["license"].value = experiment_data.licence
    /\ outFile.meta["name"].value = experiment_data.name
    /\ outFile.meta["description"].value = experiment_data.description
    /\ outFile.meta["reference"].value = experiment_data.reference
    /\ outFile.meta["release"].value = experiment_data.release

\* C4: from the first write to an image or mask dataset on, and at the end of a
\* successful run, the container holds the five metadata entries, each holding
\* the manifest's value (license that of the key licence).
C4_MetadataPopulated ==
    (InConvert /\ (pc = "done" \/ DOMAIN outFile.dsets # {})) => MetaPopulated

DatasetNames == {"imgs_train", "imgs_test", "msks_train", "msks_test"}

ListOf(name) == IF name \in {"imgs_train", "msks_train"} THEN trainList ELSE validateList

RoleOf(name) == IF name \in {"imgs_train", "imgs_test"} THEN "image" ELSE "label"

RECURSIVE SumRows(_, _)
\* the rows of the volumes of `list` read so far in `role`: min(z, resize) each
SumRows(list, role) ==
    IF list = <<>> THEN 0
    ELSE (IF <<Head(list), role>> \in DOMAIN nifti
          THEN Min(nifti[<<Head(list), role>>], args.resize) ELSE 0)
         + SumRows(Tail(list), role)

LeadingDimIsSum ==
    InConvert =>
        \A name \in DatasetNames :
            /\ Len(Dset(name)) = SumRows(ListOf(name), RoleOf(name))
            /\ (name \in DOMAIN outFile.dsets) <=>
                  (\E i \in Range(ListOf(name)) : <<i, RoleOf(name)>> \in DOMAIN nifti)
            /\ \A r \in DOMAIN Dset(name) : Dset(name)[r].role = RoleOf(name)

GrowsByOneVolume ==
    (hdf_file = "open") =>
        \A name \in DOMAIN outFile.dsets :
            LET old == outFile.dsets[name]
                new == outFile'.dsets[name]
            IN  /\ name \in DOMAIN outFile'.dsets
                /\ Len(new) >= Len(old)
                /\ SubSeq(new, 1, Len(old)) = old
                /\ \A r, q \in (Len(old) + 1)..Len(new) : new[r].src = new[q].src

\* C5: in every step of a run each of the four datasets keeps the rows it holds
\* and gains only the rows of one incoming volume after them, the first write to
\* a dataset creating it with the volume's rows; the leading dimension is at all
\* times the sum of the row counts of the volumes appended so far.
C5_AppendOnly == [][GrowsByOneVolume /\ LeadingDimIsSum']_vars

C5_Witness ==
    /\ pc = "step3"
    /\ k = 2
    /\ Len(Dset("msks_train")) = 3
    /\ Len(Dset("imgs_train")) = 3
    /\ Dset("msks_train")[1].src # Dset("msks_train")[3].src

NoOldContent ==
    /\ \A name \in DOMAIN outFile.dsets :
          \A r \in DOMAIN outFile.dsets[name] : outFile.dsets[name][r].role # "old"
    /\ DOMAIN outFile.meta = MetaNames
    /\ \A name \in DOMAIN outFile.meta : outFile.meta[name].value # "old"
    /\ \A name \in DOMAIN outFile.attrs : outFile.attrs[name] = experiment_data.modalities

\* C6: between the check for an existing output file and the opening of the
\* container no file is at the output path, and after a successful run the
\* container holds no row, entry or attribute of the old file.
C6_FreshContainer ==
    /\ pc \in {"load", "summary", "split", "call"} => ~outFile.exists
    /\ pc = "done" => (outFile.exists /\ NoOldContent)

C6_Witness ==
    /\ pc = "done"
    /\ "Removing existing data file" \in Range(console)
    /\ Len(Dset("imgs_train")) >= 1

AbsDiff(a, b) == IF a >= b THEN a - b ELSE b - a

\* C7: on each spatial axis of size n, with crop size s, crop_center keeps the
\* window [start, end) with start = max(n//2 - s//2, 0) and end = min(start+s, n);
\* for n >= s it has exactly s entries and the entries cut on the two sides
\* differ by at most 1; for n < s it is the whole axis; a channel axis is kept.
C7_CenterCrop ==
    pc = "cropped" =>
        LET img == cropIn.img
            crop == <<cropIn.cropx, cropIn.cropy, cropIn.cropz>>
        IN  /\ cropOut.axes = img.axes
            /\ Len(cropOut.dims) = Len(img.dims)
            /\ Len(img.dims) = 4 => cropOut.dims[4] = img.dims[4]
            /\ \A i \in 1..3 :
                  LET n == img.dims[i]
                      s == crop[i]
                      start == cropOut.lo[img.axes[i]]
                      end == start + cropOut.dims[i]
                  IN  /\ start = Max(n \div 2 - s \div 2, 0)
                      /\ end = Min(start + s, n)
                      /\ n >= s => /\ end - start = s
                                   /\ AbsDiff(start, n - end) <= 1
                      /\ n < s => /\ start = 0
                                  /\ end = n

C7_Witness ==
    /\ pc = "cropped"
    /\ Len(cropIn.img.dims) = 4
    /\ cropIn.img.dims[1] > cropIn.cropx
    /\ cropOut.lo["x"] > 0
    /\ cropIn.img.dims[2] < cropIn.cropy
    /\ cropIn.img.dims[2] > 0
    /\ cropIn.img.dims[3] = cropIn.cropz

\* C8: after the binarization of a mask of class labels every voxel is 0 or 1,
\* the voxels holding 1 are those that held a label >= 1, and a voxel that held
\* 0 or 1 holds what it held.
C8_Binarized ==
    pc = "masked" =>
        /\ DOMAIN mskOut = DOMAIN mskIn
        /\ \A i \in DOMAIN mskOut :
              /\ mskOut[i] \in {0, 1}
              /\ (mskOut[i] = 1) <=> (mskIn[i] >= 1)
              /\ mskIn[i] \in {0, 1} => mskOut[i] = mskIn[i]

C8_Witness ==
    /\ pc = "masked"
    /\ \E i, j, l \in DOMAIN mskIn : mskIn[i] = 0 /\ mskIn[j] = 1 /\ mskIn[l] > 1

\* C9: a run that has opened the container and has ended, with the final
\* confirmation or on an unreadable sample volume, has closed the handle.
C9_HandleReleased ==
    (InConvert /\ (pc = "done" \/ error = "FileNotFoundError")) => hdf_file = "closed"

SameDims ==
    \A i \in 0..(experiment_data.numTraining - 1) :
        /\ {<<i, "image">>, <<i, "label">>} \subseteq DOMAIN nifti
        /\ nifti[<<i, "image">>] = nifti[<<i, "label">>]

RECURSIVE Blocks(_)
\* the sources of a dataset's rows, a run of rows of one source counted once
Blocks(q) ==
    IF q = <<>> THEN <<>>
    ELSE IF Len(q) >= 2 /\ q[1].src = q[2].src THEN Blocks(Tail(q))
    ELSE <<q[1].src>> \o Blocks(Tail(q))

AlignedPair(imgs, msks, list) ==
    /\ Len(Dset(imgs)) = Len(Dset(msks))
    /\ Blocks(Dset(imgs)) = list
    /\ Blocks(Dset(msks)) = list
    /\ \A r \in DOMAIN Dset(imgs) :
          /\ Dset(imgs)[r].src = Dset(msks)[r].src
          /\ Dset(imgs)[r].at = Dset(msks)[r].at
          /\ Dset(imgs)[r].axis = "z"
          /\ Dset(msks)[r].axis = "z"

\* C10: after a successful run in which each sample's image and label have the
\* same spatial dimensions, imgs_train and msks_train have the same number of
\* rows, row by row from the same sample and the same z slice, the samples in
\* the order of trainList; likewise imgs_test and msks_test with validateList.
C10_Aligned ==
    (pc = "done" /\ SameDims) =>
        /\ AlignedPair("imgs_train", "msks_train", trainList)
        /\ AlignedPair("imgs_test", "msks_test", validateList)

C10_Witness ==
    /\ pc = "done"
    /\ SameDims
    /\ Len(trainList) >= 2
    /\ Len(Dset("imgs_train")) = 3
    /\ Len(Dset("imgs_test")) >= 1

====
